---- MODULE Spec2Model ----
(***************************************************************************)
(* Model of src/src/tools/performance.ts: the performance-trace tools of   *)
(* chrome-devtools-mcp.  Each tool handler is an async function; between   *)
(* two awaits it runs atomically, and at an await another handler may run. *)
(* A handler invocation is a process p: pc[p] is the await it is suspended *)
(* at, resp[p] the lines appended to its Response, trail[p] the calls it   *)
(* issued to external collaborators (driver, lookup, formatter).           *)
(***************************************************************************)
EXTENDS Integers, Sequences, FiniteSets, TLC

VARIABLES
    isRunning,   \* context.isRunningPerformanceTrace()
    autoStopOf,  \* the start with autoStop whose line 54 set the flag of
                 \* the current recording; the program keeps no such
                 \* record, the model does, to tell whose recording a
                 \* scheduled stop ends
    traces,      \* context.recordedTraces()
    capture,     \* the driver: page.tracing is recording
    pageUrl,     \* the driver: page.url()
    pc,          \* per invocation: the await it is suspended at, or its outcome
    op,          \* per invocation: the tool called and request.params
    resp,        \* per invocation: response lines, in order
    trail,       \* per invocation: calls issued to external collaborators
    target,      \* per invocation: the local pageUrlForTracing
    result,      \* per invocation: the local result of stopTracingAndAppendOutput
    errorText,   \* per invocation: the local errorText of its catch block
    bounds       \* per invocation: the local bounds of a track summary

vars == <<isRunning, autoStopOf, traces, capture, pageUrl, pc, op, resp, trail, target, result, errorText, bounds>>

----------------------------------------------------------------------------
(* Bounds of the model *)

MaxTraces == 2         \* a start or stop is admitted while History, with the
                       \* starts and stops in flight, stays shorter than this
MaxTime == 2           \* timestamps of a trace extent range over 0..MaxTime

Procs == 1..MaxTraces              \* the starts and stops that may be in flight at once
Keys == {"r-1", "r-2"}             \* event keys a caller may pass
KeySets == {{}, {"r-1"}}           \* the keys a parsed trace may resolve
Times == 0..MaxTime
ReqTimes == -1..(MaxTime + 1)      \* requested min / max
Extents == {e \in Times \X Times : e[1] <= e[2]}
Site == "https://site/"
Blank == "about:blank"

----------------------------------------------------------------------------
(* Response lines *)

AlreadyRunningLine == "Error: a performance trace is already running. Use performance_stop_trace to stop it. Only one trace can be running at any given time."
AckLine == "The performance trace is being recorded. Use performance_stop_trace to stop it."
StoppedLine == "The performance trace has been stopped."
SummaryHeaderLine == "Here is a high level summary of the trace and the Insights that were found:"
ParseErrorHeaderLine == "There was an unexpected error parsing the trace:"
GenericFailureLine == "An error occurred generating the response for this trace:"
NoInsightTraceLine == "No recorded traces found. Record a performance trace so you have Insights to analyze."
NoTraceLine == "Error: no trace recorded"
NoEventLine == "Error: no event with key found"
InvalidBoundsLine == "Erorr: invalid trace bounds"
NoCallTreeLine == "No call tree found"
ADDITIONAL_INSTRUCTIONS == "You have been provided a summary of a trace: ..."

\* Texts produced by the external collaborators
DriverErrorText == "driver error"
ParserThrowText == "parser exception"
ParseErrorText == "parse error"
SummaryThrowText == "summary exception"
TraceSummaryText(t) == "summary of trace " \o ToString(t.id)
InsightErrorText == "insight error"
InsightOutputText(t) == "insight of trace " \o ToString(t.id)
EventText(t, key) == "Event:\n" \o ToString(t.id) \o "/" \o key
WindowText(w) == "[" \o ToString(w.min) \o "," \o ToString(w.max) \o "]"

----------------------------------------------------------------------------
(* Helpers *)

Null == "null"

\* autoStopOf when no recording is current or no stop is scheduled for it
NoStart == 0

Max(a, b) == IF a >= b THEN a ELSE b
Min(a, b) == IF a <= b THEN a ELSE b
Last(s) == s[Len(s)]
Contains(s, x) == \E i \in 1..Len(s) : s[i] = x
NoOp == [name |-> "none"]
NoResult == [kind |-> "none"]
NoBounds == [ok |-> FALSE]

\* !recordedTraces().at(-1): at(-1) is undefined exactly on an empty array
NoLast(s) == Len(s) = 0

\* invocations that may still store a trace
Recorders == {p \in Procs : op[p].name \in {"start", "stop"} /\ pc[p] \notin {"idle", "returned", "threw"}}
Admit == Len(traces) + Cardinality(Recorders) < MaxTraces

\* The caller takes a response (or an exception) as soon as the handler has
\* completed: no other handler runs in between.
NoneDone == \A q \in Procs : pc[q] \notin {"returned", "threw"}

\* invocations are interchangeable: a new one takes the lowest free slot
Free(p) == NoneDone /\ pc[p] = "idle" /\ \A q \in Procs : q < p => pc[q] # "idle"

\* The query tools run without suspending.  A caller issues them between its
\* starts and stops; what they read, History, changes in one step of a stop.
Quiet(p) == Free(p) /\ Recorders = {}

\* invocation p is resumed at the await it is suspended at
At(p, await) == NoneDone /\ pc[p] = await

Init ==
    /\ isRunning = FALSE
    /\ autoStopOf = NoStart
    /\ traces = <<>>
    /\ capture = FALSE
    /\ pageUrl = Site
    /\ pc = [p \in Procs |-> "idle"]
    /\ op = [p \in Procs |-> NoOp]
    /\ resp = [p \in Procs |-> <<>>]
    /\ trail = [p \in Procs |-> <<>>]
    /\ target = [p \in Procs |-> Null]
    /\ result = [p \in Procs |-> NoResult]
    /\ errorText = [p \in Procs |-> Null]
    /\ bounds = [p \in Procs |-> NoBounds]

----------------------------------------------------------------------------
(* startTrace.handler *)

\* the guard left out
StartNeverRejects == FALSE

\* lines 48-53: the guard at the top of start
StartRejects == isRunning

\* the flag left as it is when the start is accepted
RunningNotSetAtAccept == isRunning

\* line 54: the flag once the start is accepted, before the first await
RunningAfterAccept == TRUE

\* the URL read only after the blank navigation was asked for
UrlReadAfterBlank == Blank

\* line 57: page.url(), read before any navigation
PageUrlForTracing == pageUrl

\* lines 97-104, reached after the last navigation or after tracing.start
StartAfterCapture(p, autoStop) ==
    IF autoStop
    THEN /\ pc' = [pc EXCEPT ![p] = "delay"]
         /\ resp' = resp
    ELSE /\ pc' = [pc EXCEPT ![p] = "returned"]
         /\ resp' = [resp EXCEPT ![p] = Append(@, AckLine)]

\* lines 47-64 / 87: from the call up to the first await
StartEnter(p, reload, autoStop) ==
    /\ Free(p)
    /\ Admit
    /\ op' = [op EXCEPT ![p] = [name |-> "start", reload |-> reload, autoStop |-> autoStop]]
    /\ IF StartRejects
       THEN /\ resp' = [resp EXCEPT ![p] = Append(@, AlreadyRunningLine)]
            /\ pc' = [pc EXCEPT ![p] = "returned"]
            /\ UNCHANGED <<isRunning, autoStopOf, trail, target>>
       ELSE /\ isRunning' = RunningAfterAccept
            /\ autoStopOf' = IF autoStop THEN p ELSE NoStart
            /\ target' = [target EXCEPT ![p] = PageUrlForTracing]
            /\ IF reload
               THEN /\ trail' = [trail EXCEPT ![p] = Append(@, "goto " \o Blank)]
                    /\ pc' = [pc EXCEPT ![p] = "gotoBlank"]
               ELSE /\ trail' = [trail EXCEPT ![p] = Append(@, "tracing.start")]
                    /\ pc' = [pc EXCEPT ![p] = "tracingStart"]
            /\ resp' = resp
    /\ UNCHANGED <<traces, capture, pageUrl, result, errorText, bounds>>

\* lines 61-63 resolve or reject, then line 87 is called
StartGotoBlankDone(p, ok) ==
    /\ At(p, "gotoBlank")
    /\ IF ok
       THEN /\ pageUrl' = Blank
            /\ trail' = [trail EXCEPT ![p] = Append(@, "tracing.start")]
            /\ pc' = [pc EXCEPT ![p] = "tracingStart"]
       ELSE /\ pageUrl' \in {pageUrl, Blank}
            /\ pc' = [pc EXCEPT ![p] = "threw"]
            /\ trail' = trail
    /\ UNCHANGED <<isRunning, autoStopOf, traces, capture, op, resp, target, result, errorText, bounds>>

\* lines 87-89 resolve or reject, then lines 91-104
StartTracingDone(p, ok) ==
    /\ At(p, "tracingStart")
    /\ IF ok
       THEN /\ capture' = TRUE
            /\ IF op[p].reload
               THEN /\ trail' = [trail EXCEPT ![p] = Append(@, "goto " \o target[p])]
                    /\ pc' = [pc EXCEPT ![p] = "gotoBack"]
                    /\ resp' = resp
               ELSE /\ StartAfterCapture(p, op[p].autoStop)
                    /\ trail' = trail
       ELSE /\ pc' = [pc EXCEPT ![p] = "threw"]
            /\ UNCHANGED <<capture, trail, resp>>
    /\ UNCHANGED <<isRunning, autoStopOf, traces, pageUrl, op, target, result, errorText, bounds>>

\* lines 92-94 resolve or reject, then lines 97-104
StartGotoBackDone(p, ok) ==
    /\ At(p, "gotoBack")
    /\ IF ok
       THEN /\ pageUrl' = target[p]
            /\ StartAfterCapture(p, op[p].autoStop)
       ELSE /\ pageUrl' \in {pageUrl, target[p]}
            /\ pc' = [pc EXCEPT ![p] = "threw"]
            /\ resp' = resp
    /\ UNCHANGED <<isRunning, autoStopOf, traces, capture, op, trail, target, result, errorText, bounds>>

\* line 98: the 5 s timer fires; line 99 calls stopTracingAndAppendOutput,
\* which runs up to its first await (line 169)
StartDelayDone(p) ==
    /\ At(p, "delay")
    /\ trail' = [trail EXCEPT ![p] = Append(@, "tracing.stop")]
    /\ pc' = [pc EXCEPT ![p] = "tracingStop"]
    /\ UNCHANGED <<isRunning, autoStopOf, traces, capture, pageUrl, op, resp, target, result, errorText, bounds>>

----------------------------------------------------------------------------
(* stopTracingAndAppendOutput *)

\* what parseRawTraceBuffer may resolve to for the next trace of History
ParsedTraces == {[id |-> Len(traces) + 1, lo |-> 0, hi |-> MaxTime, keys |-> ks] : ks \in KeySets}
ParseResults ==
    {[kind |-> "trace", trace |-> t] : t \in ParsedTraces} \cup {[kind |-> "error", error |-> ParseErrorText]}

\* line 172
TraceResultIsSuccess(r) == r.kind = "trace"

\* the trace put at the front of the array
StoreTraceRecordingFirst(s, t) == <<t>> \o s

\* only the latest recording kept
StoreTraceRecordingLatestOnly(s, t) == <<t>>

\* line 173: context.storeTraceRecording(result)
StoreTraceRecording(s, t) == Append(s, t)

\* the result stored before it is tested for success
TracesAfterParseUntested(r) ==
    StoreTraceRecording(traces, IF r.kind = "trace" THEN r.trace
                                ELSE [id |-> Len(traces) + 1, lo |-> 0, hi |-> 0, keys |-> {}])

\* lines 172-173: History once the try block has run past the parse
TracesAfterParse(r) ==
    IF TraceResultIsSuccess(r) THEN StoreTraceRecording(traces, r.trace) ELSE traces

\* lines 171-186: the lines the try block appends after the parse;
\* getTraceSummary (line 177) returns or throws
LinesAfterParse(r, summaryOk) ==
    IF TraceResultIsSuccess(r)
    THEN IF summaryOk
         THEN <<StoppedLine, SummaryHeaderLine, TraceSummaryText(r.trace), ADDITIONAL_INSTRUCTIONS>>
         ELSE <<StoppedLine, SummaryHeaderLine>>
    ELSE <<StoppedLine, ParseErrorHeaderLine, r.error>>

\* the catch block keeping the error text to the log
CatchLinesWithoutText(text) == <<GenericFailureLine>>

\* lines 187-193: the lines the catch block appends
CatchLines(text) == <<GenericFailureLine, text>>

\* the flag reset at the end of the try block instead of in a finally block
RunningAfterStopNoFinally(threw) == IF threw THEN isRunning ELSE FALSE

\* lines 194-196: the flag after the finally block; threw tells whether the
\* catch block ran
RunningAfterStop(threw) == FALSE

\* line 169 resolves or rejects; on resolve line 170 is called
StopTracingDone(p, ok) ==
    /\ At(p, "tracingStop")
    /\ IF ok
       THEN /\ capture' = FALSE
            /\ trail' = [trail EXCEPT ![p] = Append(@, "parseRawTraceBuffer")]
            /\ pc' = [pc EXCEPT ![p] = "parse"]
            /\ UNCHANGED <<isRunning, autoStopOf, resp, errorText>>
       ELSE /\ errorText' = [errorText EXCEPT ![p] = DriverErrorText]
            /\ trail' = [trail EXCEPT ![p] = Append(@, "logger")]
            /\ resp' = [resp EXCEPT ![p] = @ \o CatchLines(DriverErrorText)]
            /\ isRunning' = RunningAfterStop(TRUE)
            /\ autoStopOf' = NoStart
            /\ pc' = [pc EXCEPT ![p] = "returned"]
            /\ UNCHANGED capture
    /\ UNCHANGED <<traces, pageUrl, op, target, result, bounds>>

\* line 170 resolves: lines 171-186, the catch block when getTraceSummary
\* throws, then the finally block
StopParseDone(p, r, summaryOk) ==
    LET threw == TraceResultIsSuccess(r) /\ ~summaryOk IN
    /\ At(p, "parse")
    /\ result' = [result EXCEPT ![p] = r]
    /\ traces' = TracesAfterParse(r)
    /\ trail' = [trail EXCEPT ![p] =
                   IF TraceResultIsSuccess(r)
                   THEN IF threw THEN @ \o <<"getTraceSummary", "logger">> ELSE Append(@, "getTraceSummary")
                   ELSE @]
    /\ errorText' = [errorText EXCEPT ![p] = IF threw THEN SummaryThrowText ELSE @]
    /\ resp' = [resp EXCEPT ![p] =
                  @ \o LinesAfterParse(r, summaryOk)
                    \o (IF threw THEN CatchLines(SummaryThrowText) ELSE <<>>)]
    /\ isRunning' = RunningAfterStop(threw)
    /\ autoStopOf' = NoStart
    /\ pc' = [pc EXCEPT ![p] = "returned"]
    /\ UNCHANGED <<capture, pageUrl, op, target, bounds>>

\* line 170 rejects: the catch block, then the finally block
StopParseThrows(p) ==
    /\ At(p, "parse")
    /\ errorText' = [errorText EXCEPT ![p] = ParserThrowText]
    /\ trail' = [trail EXCEPT ![p] = Append(@, "logger")]
    /\ resp' = [resp EXCEPT ![p] = @ \o CatchLines(ParserThrowText)]
    /\ isRunning' = RunningAfterStop(TRUE)
    /\ autoStopOf' = NoStart
    /\ pc' = [pc EXCEPT ![p] = "returned"]
    /\ UNCHANGED <<traces, capture, pageUrl, op, target, result, bounds>>

----------------------------------------------------------------------------
(* stopTrace.handler *)

\* line 118 tests the accessor context.isRunningPerformanceTrace itself, not
\* the value it returns: a method of the context, which is always defined
IsRunningAccessor == TRUE

\* the guard inverted: the handler leaves when a recording is running
StopReturnsEarlyWhenRecording == isRunning

StopReturnsEarly == ~IsRunningAccessor

\* lines 117-122 and line 169: from the call up to the first await
StopEnter(p) ==
    /\ Free(p)
    /\ Admit
    /\ op' = [op EXCEPT ![p] = [name |-> "stop"]]
    /\ IF StopReturnsEarly
       THEN /\ pc' = [pc EXCEPT ![p] = "returned"]
            /\ trail' = trail
       ELSE /\ trail' = [trail EXCEPT ![p] = Append(@, "tracing.stop")]
            /\ pc' = [pc EXCEPT ![p] = "tracingStop"]
    /\ UNCHANGED <<isRunning, autoStopOf, traces, capture, pageUrl, resp, target, result, errorText, bounds>>

\* the caller takes the response (or the exception); the slot is free again
Return(p) ==
    /\ pc[p] \in {"returned", "threw"}
    /\ pc' = [pc EXCEPT ![p] = "idle"]
    /\ op' = [op EXCEPT ![p] = NoOp]
    /\ resp' = [resp EXCEPT ![p] = <<>>]
    /\ trail' = [trail EXCEPT ![p] = <<>>]
    /\ target' = [target EXCEPT ![p] = Null]
    /\ result' = [result EXCEPT ![p] = NoResult]
    /\ errorText' = [errorText EXCEPT ![p] = Null]
    /\ bounds' = [bounds EXCEPT ![p] = NoBounds]
    /\ autoStopOf' = IF autoStopOf = p THEN NoStart ELSE autoStopOf
    /\ UNCHANGED <<isRunning, traces, capture, pageUrl>>

----------------------------------------------------------------------------
(* The query tools.  No handler awaits, so each runs in one step. *)

\* a query that takes the latest recording out of History as it reads it
QueryReturnsConsuming(p, o, lines, calls, b) ==
    /\ Quiet(p)
    /\ op' = [op EXCEPT ![p] = o]
    /\ resp' = [resp EXCEPT ![p] = lines]
    /\ trail' = [trail EXCEPT ![p] = calls]
    /\ pc' = [pc EXCEPT ![p] = "returned"]
    /\ bounds' = [bounds EXCEPT ![p] = b]
    /\ traces' = SubSeq(traces, 1, Max(Len(traces), 1) - 1)
    /\ UNCHANGED <<isRunning, autoStopOf, capture, pageUrl, target, result, errorText>>

\* a query that appends lines and returns
QueryReturns(p, o, lines, calls, b) ==
    /\ Quiet(p)
    /\ op' = [op EXCEPT ![p] = o]
    /\ resp' = [resp EXCEPT ![p] = lines]
    /\ trail' = [trail EXCEPT ![p] = calls]
    /\ pc' = [pc EXCEPT ![p] = "returned"]
    /\ bounds' = [bounds EXCEPT ![p] = b]
    /\ UNCHANGED <<isRunning, autoStopOf, traces, capture, pageUrl, target, result, errorText>>

\* a query whose last external call throws: nothing is appended after it
QueryThrows(p, o, calls, b) ==
    /\ Quiet(p)
    /\ op' = [op EXCEPT ![p] = o]
    /\ resp' = resp
    /\ trail' = [trail EXCEPT ![p] = calls]
    /\ pc' = [pc EXCEPT ![p] = "threw"]
    /\ bounds' = [bounds EXCEPT ![p] = b]
    /\ UNCHANGED <<isRunning, autoStopOf, traces, capture, pageUrl, target, result, errorText>>

\* the empty intersection tested with >= : a window of one instant is refused
CreateBoundsStrict(trace, min, max) ==
    IF min > max \/ Max(min, trace.lo) >= Min(max, trace.hi)
    THEN [ok |-> FALSE]
    ELSE [ok |-> TRUE, min |-> Max(min, trace.lo), max |-> Min(max, trace.hi),
          range |-> Min(max, trace.hi) - Max(min, trace.lo)]

\* lines 332-354.  min and max are numbers by the schema (lines 241-242), so
\* min ?? 0 is min and max ?? Infinity is max
TraceWindowFromMicroSeconds(min, max) == [ok |-> TRUE, min |-> min, max |-> max, range |-> max - min]
CreateBounds(trace, min, max) ==
    IF min > max
    THEN [ok |-> FALSE]
    ELSE LET clampedMin == Max(min, trace.lo)
             clampedMax == Min(max, trace.hi)
         IN  IF clampedMin > clampedMax
             THEN [ok |-> FALSE]
             ELSE TraceWindowFromMicroSeconds(clampedMin, clampedMax)

\* the oldest trace taken instead of the latest
LookupTraceFirst(s) == s[1]

\* lines 215 / 310: the trace a key is looked up in
LookupTrace(s) == Last(s)

\* lines 220-223 / 315-318: whether the key resolves to an event of the trace
LookupEvent(trace, key) == key \in trace.keys

\* the guard on the missing trace left out
AnalyzeInsightUnguarded(p, found) ==
    QueryReturns(p, [name |-> "analyzeInsight"], <<InsightErrorText>>, <<"getInsightOutput">>, NoBounds)

\* lines 141-160: getInsightOutput returns {error} or {output}
AnalyzeInsight(p, found) ==
    LET o == [name |-> "analyzeInsight"] IN
    IF NoLast(traces)
    THEN QueryReturns(p, o, <<NoInsightTraceLine>>, <<>>, NoBounds)
    ELSE QueryReturns(p, o,
            IF found THEN <<InsightOutputText(Last(traces))>> ELSE <<InsightErrorText>>,
            <<"getInsightOutput">>, NoBounds)

\* lines 214-229; lookupEvent returns the event, returns nothing, or throws
GetEventByKey(p, key, lookupOk) ==
    LET o == [name |-> "getEventByKey", key |-> key] IN
    IF NoLast(traces)
    THEN QueryReturns(p, o, <<NoTraceLine>>, <<>>, NoBounds)
    ELSE LET trace == LookupTrace(traces)
             calls == <<"lookupEvent " \o key>>
         IN  IF ~lookupOk
             THEN QueryThrows(p, o, calls, NoBounds)
             ELSE IF ~LookupEvent(trace, key)
                  THEN QueryReturns(p, o, <<NoEventLine>>, calls, NoBounds)
                  ELSE QueryReturns(p, o, <<EventText(trace, key)>>, calls, NoBounds)

\* lines 244-263 and 277-296: the two track summaries differ in the formatter
\* method only
TrackSummary(p, name, method, min, max, formatOk) ==
    LET o == [name |-> name, min |-> min, max |-> max] IN
    IF NoLast(traces)
    THEN QueryReturns(p, o, <<NoTraceLine>>, <<>>, NoBounds)
    ELSE LET trace == Last(traces)
             b == CreateBounds(trace, min, max)
         IN  IF ~b.ok
             THEN QueryReturns(p, o, <<InvalidBoundsLine>>, <<>>, b)
             ELSE LET calls == <<method \o " " \o WindowText(b)>> IN
                  IF formatOk
                  THEN QueryReturns(p, o, <<method \o " of trace " \o ToString(trace.id)>>, calls, b)
                  ELSE QueryThrows(p, o, calls, b)

GetMainThreadTrackSummary(p, min, max, formatOk) ==
    TrackSummary(p, "getMainThreadTrackSummary", "formatMainThreadTrackSummary", min, max, formatOk)

GetNetworkTrackSummary(p, min, max, formatOk) ==
    TrackSummary(p, "getNetworkTrackSummary", "formatNetworkTrackSummary", min, max, formatOk)

\* lines 309-329; AICallTree.fromEvent returns a tree or nothing
GetDetailedCallTree(p, key, lookupOk, tree, formatOk) ==
    LET o == [name |-> "getDetailedCallTree", key |-> key] IN
    IF NoLast(traces)
    THEN QueryReturns(p, o, <<NoTraceLine>>, <<>>, NoBounds)
    ELSE LET trace == LookupTrace(traces)
             lookup == <<"lookupEvent " \o key>>
         IN  IF ~lookupOk
             THEN QueryThrows(p, o, lookup, NoBounds)
             ELSE IF ~LookupEvent(trace, key)
                  THEN QueryReturns(p, o, <<NoEventLine>>, lookup, NoBounds)
                  ELSE IF ~tree
                       THEN QueryReturns(p, o, <<NoCallTreeLine>>, Append(lookup, "AICallTree.fromEvent"), NoBounds)
                       ELSE LET calls == lookup \o <<"AICallTree.fromEvent", "formatCallTree">> IN
                            IF formatOk
                            THEN QueryReturns(p, o, <<"call tree of " \o EventText(trace, key)>>, calls, NoBounds)
                            ELSE QueryThrows(p, o, calls, NoBounds)

----------------------------------------------------------------------------
(* The specifications *)

Start(p) ==
    \/ \E reload \in BOOLEAN, autoStop \in BOOLEAN : StartEnter(p, reload, autoStop)
    \/ \E ok \in BOOLEAN : StartGotoBlankDone(p, ok)
    \/ \E ok \in BOOLEAN : StartTracingDone(p, ok)
    \/ \E ok \in BOOLEAN : StartGotoBackDone(p, ok)
    \/ StartDelayDone(p)

StopSequence(p) ==
    \/ \E ok \in BOOLEAN : StopTracingDone(p, ok)
    \/ \E r \in ParseResults, summaryOk \in BOOLEAN : StopParseDone(p, r, summaryOk)
    \/ StopParseThrows(p)

Query(p) ==
    /\ Quiet(p)
    /\ \/ \E found \in BOOLEAN : AnalyzeInsight(p, found)
       \/ \E key \in Keys, lookupOk \in BOOLEAN : GetEventByKey(p, key, lookupOk)
       \/ \E min \in ReqTimes, max \in ReqTimes, formatOk \in BOOLEAN :
             GetMainThreadTrackSummary(p, min, max, formatOk)
       \/ \E min \in ReqTimes, max \in ReqTimes, formatOk \in BOOLEAN :
             GetNetworkTrackSummary(p, min, max, formatOk)
       \/ \E key \in Keys, lookupOk \in BOOLEAN, tree \in BOOLEAN, formatOk \in BOOLEAN :
             GetDetailedCallTree(p, key, lookupOk, tree, formatOk)

Next ==
    \E p \in Procs :
        \/ Start(p)
        \/ StopEnter(p)
        \/ StopSequence(p)
        \/ Query(p)
        \/ Return(p)

Spec == Init /\ [][Next]_vars

\* Starts only, with the stop sequence an autoStop start runs itself: no
\* stop tool call comes between two starts.
NextNoStop ==
    \E p \in Procs :
        \/ Start(p)
        \/ StopSequence(p)
        \/ Return(p)

SpecNoStop == Init /\ [][NextNoStop]_vars

\* Starts and stops whose awaited calls settle: every promise awaited by a
\* stop sequence resolves or rejects and the event loop then resumes the
\* handler, and the caller takes every completed handler's outcome.
NextRecording ==
    \E p \in Procs :
        \/ Start(p)
        \/ StopEnter(p)
        \/ StopSequence(p)
        \/ Return(p)

SpecStopsSettle ==
    /\ Init /\ [][NextRecording]_vars
    /\ SF_vars(\E p \in Procs : StopSequence(p))
    /\ WF_vars(\E p \in Procs : Return(p))

\* Bounds resolution alone: one trace of any extent has been recorded, and
\* the two track summaries are asked for any window.
InitBounds ==
    /\ isRunning = FALSE
    /\ autoStopOf = NoStart
    /\ \E e \in Extents : traces = <<[id |-> 1, lo |-> e[1], hi |-> e[2], keys |-> {}]>>
    /\ capture = FALSE
    /\ pageUrl = Site
    /\ pc = [p \in Procs |-> "idle"]
    /\ op = [p \in Procs |-> NoOp]
    /\ resp = [p \in Procs |-> <<>>]
    /\ trail = [p \in Procs |-> <<>>]
    /\ target = [p \in Procs |-> Null]
    /\ result = [p \in Procs |-> NoResult]
    /\ errorText = [p \in Procs |-> Null]
    /\ bounds = [p \in Procs |-> NoBounds]

NextBounds ==
    \E p \in Procs :
        \/ /\ Quiet(p)
           /\ \E min \in ReqTimes, max \in ReqTimes, formatOk \in BOOLEAN :
                 \/ GetMainThreadTrackSummary(p, min, max, formatOk)
                 \/ GetNetworkTrackSummary(p, min, max, formatOk)
        \/ Return(p)

SpecBounds == InitBounds /\ [][NextBounds]_vars

----------------------------------------------------------------------------
(* Properties *)

Done(p) == pc[p] \in {"returned", "threw"}
Entered(p, name) == pc[p] = "idle" /\ pc'[p] # "idle" /\ op'[p].name = name
StopSequenceEnds(p) == pc[p] \in {"tracingStop", "parse"} /\ Done(p)'
InOrder(s, a, b) == \E i \in 1..Len(s), j \in 1..Len(s) : i < j /\ s[i] = a /\ s[j] = b

\* C1: a start invoked while the flag says Recording appends only the
\* AlreadyRunning line and returns: the flag, History and the driver are left
\* as they were and no driver call is issued, whatever reload and autoStop are.
C1_StartWhileRecordingOnlyRejects ==
    [][\A p \in Procs :
          (Entered(p, "start") /\ isRunning) =>
              /\ pc'[p] = "returned"
              /\ resp'[p] = <<AlreadyRunningLine>>
              /\ trail'[p] = <<>>
              /\ isRunning' = TRUE
              /\ UNCHANGED <<traces, capture, pageUrl>>]_vars

\* a start with reload and autoStop set was rejected while another start is
\* still suspended
C1_Witness ==
    \E p \in Procs, q \in Procs :
        /\ op[p].name = "start" /\ op[p].reload /\ op[p].autoStop
        /\ pc[p] = "returned" /\ resp[p] = <<AlreadyRunningLine>>
        /\ op[q].name = "start" /\ pc[q] = "delay"
        /\ isRunning

\* C2: the step that completes a stop sequence, on the success path, the
\* parse-failure path and the exception path alike, leaves the flag Idle.
C2_StopSequenceEndsIdle ==
    [][\A p \in Procs : StopSequenceEnds(p) => isRunning' = FALSE]_vars

\* a stop sequence has completed through its catch block
C2_Witness ==
    \E p \in Procs :
        /\ op[p].name \in {"start", "stop"} /\ pc[p] = "returned"
        /\ errorText[p] # Null
        /\ Contains(resp[p], GenericFailureLine)
        /\ ~isRunning

\* C3: a stop invoked while the flag says Idle returns at once: no line, no
\* driver call, History and the flag unchanged.
C3_StopWhileIdleIsNoOp ==
    [][\A p \in Procs :
          (Entered(p, "stop") /\ ~isRunning) =>
              /\ pc'[p] = "returned"
              /\ resp'[p] = <<>>
              /\ trail'[p] = <<>>
              /\ UNCHANGED <<isRunning, traces, capture>>]_vars

\* C4: the step of a stop sequence in which the parse returns a failure
\* result leaves History as it was, appends the confirmation line, the
\* parse-error line and the parser's error text, and leaves the flag Idle.
C4_ParseFailureStoresNothing ==
    [][\A p \in Procs :
          (StopSequenceEnds(p) /\ result'[p].kind = "error") =>
              /\ traces' = traces
              /\ resp'[p] = resp[p] \o <<StoppedLine, ParseErrorHeaderLine, result'[p].error>>
              /\ isRunning' = FALSE]_vars

\* a stop, invoked after a first trace was stored, ended in a parse failure
C4_Witness ==
    \E p \in Procs :
        /\ op[p].name = "stop" /\ pc[p] = "returned"
        /\ result[p].kind = "error"
        /\ Len(traces) = 1

QueryNames == {"analyzeInsight", "getEventByKey", "getMainThreadTrackSummary",
               "getNetworkTrackSummary", "getDetailedCallTree"}
BoundsQueries == {"getMainThreadTrackSummary", "getNetworkTrackSummary"}
KeyQueries == {"getEventByKey", "getDetailedCallTree"}

\* C6: for a trace of extent [lo, hi] and any requested min and max, a track
\* summary resolves its bounds as the reference does: it answers with the
\* invalid-bounds line, calling no formatter, exactly when min > max or
\* max(min, lo) > min(max, hi); otherwise its window is
\* {max(min, lo), min(max, hi)}, which lies within [lo, hi] with min <= max.
C6_BoundsResolveAsReference ==
    \A p \in Procs :
        (Done(p) /\ op[p].name \in BoundsQueries /\ ~NoLast(traces)) =>
            LET t == Last(traces)
                refMin == Max(op[p].min, t.lo)
                refMax == Min(op[p].max, t.hi)
            IN  IF op[p].min > op[p].max \/ refMin > refMax
                THEN /\ ~bounds[p].ok
                     /\ pc[p] = "returned"
                     /\ resp[p] = <<InvalidBoundsLine>>
                     /\ trail[p] = <<>>
                ELSE /\ bounds[p].ok
                     /\ bounds[p].min = refMin /\ bounds[p].max = refMax
                     /\ t.lo <= bounds[p].min /\ bounds[p].min <= bounds[p].max
                     /\ bounds[p].max <= t.hi
                     /\ Len(trail[p]) = 1

\* the extent [1, 2] was asked for [0, 3], which was clamped to [1, 2]
C6_Witness ==
    \E p \in Procs :
        /\ pc[p] = "returned" /\ op[p].name = "getNetworkTrackSummary"
        /\ Last(traces).lo = 1 /\ Last(traces).hi = 2
        /\ op[p].min = 0 /\ op[p].max = 3
        /\ bounds[p].ok /\ bounds[p].min = 1 /\ bounds[p].max = 2

\* C7 as stated: once a later trace is recorded, a key that resolved in an
\* earlier trace is answered with the not-found line.
C7_SupersededKeyNotFound ==
    \A p \in Procs :
        (/\ pc[p] = "returned" /\ op[p].name \in KeyQueries
         /\ \E i \in 1..(Len(traces) - 1) : op[p].key \in traces[i].keys) =>
            resp[p] = <<NoEventLine>>

\* C7 amended: a key is looked up in History.last() alone, by one lookup. A
\* key that resolved in an earlier trace is answered with the not-found line
\* unless the latest trace resolves the same key, and an event that is
\* returned is the latest trace's event, never a superseded trace's.
C7_LookupInLatestTraceOnly ==
    \A p \in Procs :
        (pc[p] = "returned" /\ op[p].name \in KeyQueries /\ ~NoLast(traces)) =>
            LET latest == Last(traces)
                key == op[p].key
            IN  /\ trail[p][1] = "lookupEvent " \o key
                /\ \A i \in 2..Len(trail[p]) : trail[p][i] \notin {"lookupEvent " \o k : k \in Keys}
                /\ IF key \in latest.keys
                   THEN resp[p] \in {<<EventText(latest, key)>>,
                                     <<"call tree of " \o EventText(latest, key)>>,
                                     <<NoCallTreeLine>>}
                   ELSE resp[p] = <<NoEventLine>>

\* the key resolves in trace 1, not in trace 2, and was answered not found
C7_Witness ==
    \E p \in Procs :
        /\ pc[p] = "returned" /\ op[p].name = "getEventByKey"
        /\ Len(traces) = 2
        /\ op[p].key \in traces[1].keys /\ op[p].key \notin traces[2].keys
        /\ resp[p] = <<NoEventLine>>

\* C8: while History is empty every query returns with its no-trace line
\* alone, whatever its input, and has called no external service.
C8_QueriesWithoutTrace ==
    \A p \in Procs :
        (Done(p) /\ op[p].name \in QueryNames /\ NoLast(traces)) =>
            /\ pc[p] = "returned"
            /\ trail[p] = <<>>
            /\ resp[p] = IF op[p].name = "analyzeInsight"
                         THEN <<NoInsightTraceLine>> ELSE <<NoTraceLine>>

\* a query was answered while a recording runs and no trace is stored yet
C8_Witness ==
    \E p \in Procs :
        /\ pc[p] = "returned" /\ op[p].name = "analyzeInsight"
        /\ traces = <<>> /\ isRunning
        /\ resp[p] = <<NoInsightTraceLine>>

StartAwaits == {"gotoBlank", "tracingStart", "gotoBack", "delay"}
AcceptedStarts == {p \in Procs : op[p].name = "start" /\ pc[p] \in StartAwaits \cup {"tracingStop", "parse"}}

\* C9: with no stop call between them, a start that arrives while another
\* start is suspended at one of its awaits sees the flag set and is rejected
\* with the AlreadyRunning line, issuing no driver call; at no time are two
\* accepted starts in flight.
C9_SecondStartRejected ==
    /\ [](Cardinality(AcceptedStarts) <= 1)
    /\ [][\A p \in Procs, q \in Procs :
             (p # q /\ q \in AcceptedStarts /\ pc[q] \in StartAwaits /\ Entered(p, "start")) =>
                 /\ isRunning
                 /\ pc'[p] = "returned"
                 /\ resp'[p] = <<AlreadyRunningLine>>
                 /\ trail'[p] = <<>>
                 /\ capture' = capture]_vars

\* a start was rejected while the first start waits for its blank navigation
C9_Witness ==
    \E p \in Procs, q \in Procs :
        /\ op[q].name = "start" /\ pc[q] = "gotoBlank"
        /\ op[p].name = "start" /\ pc[p] = "returned"
        /\ resp[p] = <<AlreadyRunningLine>>

\* C10: no operation ends by throwing to its caller.
C10_NoOperationThrows ==
    \A p \in Procs : pc[p] # "threw"

IsPrefix(s, t) == Len(s) <= Len(t) /\ SubSeq(t, 1, Len(s)) = s

\* C11: History is append-only over every interleaving: each step leaves
\* the earlier History as a prefix of the later one, entries are never
\* removed, reordered or changed, and a step adds at most one entry.
C11_HistoryAppendOnly ==
    [][/\ IsPrefix(traces, traces')
       /\ Len(traces') <= Len(traces) + 1]_vars

\* a second stop sequence has appended behind the first recording
C11_Witness ==
    /\ Len(traces) = MaxTraces
    /\ \A i \in 1..Len(traces) : traces[i].id = i
    /\ \E p \in Procs : pc[p] = "returned" /\ Contains(resp[p], StoppedLine)

\* the step on which an accepted start returns
StartCompletes(p) ==
    /\ p \in AcceptedStarts
    /\ pc'[p] = "returned"

HasStopOutput(lines) ==
    Contains(lines, StoppedLine) \/ Contains(lines, GenericFailureLine)

\* C12: an accepted start with autoStop=true completes with the state Idle,
\* a response that holds the stop output and no acknowledgement line, and
\* History grown by at most one; an accepted start with autoStop=false
\* that completes leaves the state Recording and History unchanged, and
\* its response is the single acknowledgement line.
C12_StartCompletion ==
    [][\A p \in Procs :
         StartCompletes(p) =>
           IF op[p].autoStop
           THEN /\ ~isRunning'
                /\ HasStopOutput(resp'[p])
                /\ ~Contains(resp'[p], AckLine)
                /\ Len(traces') <= Len(traces) + 1
           ELSE /\ isRunning'
                /\ traces' = traces
                /\ resp'[p] = <<AckLine>>]_vars

\* lines 59-95: the driver calls of an accepted start ahead of line 97
StartCalls(p) ==
    IF op[p].reload
    THEN <<"goto about:blank", "tracing.start", "goto " \o target[p]>>
    ELSE <<"tracing.start">>

\* the start has reached the autoStop / acknowledgement step of lines 97-104
PastStartCalls(p) ==
    \/ pc[p] \in {"delay", "tracingStop", "parse"}
    \/ pc[p] = "returned" /\ resp[p] # <<AlreadyRunningLine>>

StartCallsInOrder(p) ==
    LET n == Min(Len(trail[p]), Len(StartCalls(p))) IN
    /\ SubSeq(trail[p], 1, n) = SubSeq(StartCalls(p), 1, n)
    /\ pc[p] = "delay" => trail[p] = StartCalls(p)
    /\ PastStartCalls(p) => Len(trail[p]) >= Len(StartCalls(p))

\* C13: an accepted start with reload=true reads the page URL as
\* targetPageUrl before anything else and then calls the driver in the
\* order: navigate to blank, enable capture, navigate to targetPageUrl;
\* with reload=false it navigates nowhere and enabling capture is its
\* only driver call before the autoStop / acknowledgement step.
C13_StartDriverOrder ==
    [][\A p \in Procs :
         /\ (Entered(p, "start") /\ pc'[p] \in StartAwaits) => target'[p] = pageUrl
         /\ op'[p].name = "start" => StartCallsInOrder(p)']_vars

\* a reloading start waits for the navigation back to the URL it read
\* first, while the page sits on the blank page
C13_Witness ==
    \E p \in Procs :
        /\ op[p].name = "start" /\ op[p].reload
        /\ pc[p] = "gotoBack"
        /\ pageUrl = Blank /\ target[p] = Site
        /\ trail[p] = <<"goto about:blank", "tracing.start", "goto " \o Site>>

SessionState == <<isRunning, traces, capture>>

\* C14: every query, whatever its input and outcome, leaves the state
\* flag, History and the driver's capture state as they were; a step that
\* changes any of them is a step of a start or of a stop.
C14_QueriesChangeNothing ==
    [][/\ \A p \in Procs, name \in QueryNames :
            Entered(p, name) => UNCHANGED SessionState
       /\ SessionState' # SessionState =>
            \E p \in Procs : pc'[p] # pc[p] /\ op'[p].name \in {"start", "stop"}]_vars

\* a query has run while the session records and History holds a trace
C14_Witness ==
    \E p \in Procs :
        /\ op[p].name \in QueryNames
        /\ Done(p)
        /\ isRunning /\ capture /\ Len(traces) = 1

\* page.tracing.stop() (line 169) rejects inside the stop sequence of p
DriverThrowsInStop(p) ==
    /\ pc[p] = "tracingStop"
    /\ Done(p)'

\* C15: when the driver throws while capture is being disabled and the
\* payload retrieved, the error is logged, the response gets the generic
\* failure line followed by the error text, no RecordedTrace is appended
\* and the state is Idle afterwards.
C15_DriverFailureInStop ==
    [][\A p \in Procs :
         DriverThrowsInStop(p) =>
           /\ errorText'[p] = DriverErrorText
           /\ trail'[p] = Append(trail[p], "logger")
           /\ resp'[p] = resp[p] \o <<GenericFailureLine, DriverErrorText>>
           /\ traces' = traces
           /\ pc'[p] = "returned"
           /\ ~isRunning']_vars

\* a stop called while recording has returned after the driver threw
C15_Witness ==
    \E p \in Procs :
        /\ op[p].name = "stop"
        /\ pc[p] = "returned"
        /\ trail[p] = <<"tracing.stop", "logger">>
        /\ resp[p] = <<GenericFailureLine, DriverErrorText>>
        /\ capture /\ ~isRunning /\ traces = <<>>

StopInFlight(p) == op[p].name = "stop" /\ pc[p] # "idle"

\* C16: the session is never wedged in Recording: from every reachable
\* Recording state, also one left behind by a failed start or stop, a stop
\* invocation whose awaited calls return, normally or by exception, brings
\* the state to Idle, and a start that finds the state Idle is accepted.
C16_StopLeadsToIdle ==
    /\ (isRunning /\ \E p \in Procs : StopInFlight(p)) ~> ~isRunning
    /\ [][\A p \in Procs :
            (Entered(p, "start") /\ ~isRunning) =>
               pc'[p] \in StartAwaits /\ isRunning']_vars

\* a stop is called in the Recording state a failed start left behind:
\* the flag is set, capture is off and no start is in flight
C16_Witness ==
    \E p \in Procs :
        /\ StopInFlight(p)
        /\ pc[p] = "tracingStop"
        /\ isRunning /\ ~capture
        /\ \A q \in Procs \ {p} : pc[q] = "idle"

CaptureWhileIdle == capture /\ ~isRunning

\* C17: in every reachable state, under every interleaving of starts and
\* stops at their awaits, capture is enabled only while the state is
\* Recording: no step leads into a state with capture enabled and the
\* state Idle.  A stop whose driver call throws and so fails to disable
\* capture is the driver's failure, not an interleaving, and is left out.
C17_CaptureOnlyWhileRecording ==
    [][CaptureWhileIdle' =>
          \/ CaptureWhileIdle
          \/ \E p \in Procs : DriverThrowsInStop(p)]_vars

NoneInFlight == \A p \in Procs : pc[p] = "idle"

\* C18: whenever no operation is in flight, the state is Recording only
\* if capture is enabled: a start whose navigation or enable-capture call
\* fails does not leave the state Recording with capture disabled.
C18_RecordingMeansCapturing == (NoneInFlight /\ isRunning) => capture

\* a step of the stop sequence that the autoStop start p runs at line 99
AutoStopStep(p) ==
    /\ op[p].name = "start"
    /\ pc[p] \in {"tracingStop", "parse"}
    /\ pc'[p] # pc[p]

\* a recording is current that was begun by a start other than p
LaterRecording(p) == isRunning /\ autoStopOf # p

\* C19: the stop scheduled by a start with autoStop=true only ends the
\* recording that start began: when an explicit stop and a further start
\* have come during the delay, the delayed stop neither disables capture
\* of the later recording nor resets its state.
C19_AutoStopEndsOwnRecording ==
    [][\A p \in Procs :
         (AutoStopStep(p) /\ LaterRecording(p)) =>
            UNCHANGED <<capture, isRunning>>]_vars

ReportsFailure(lines) ==
    Contains(lines, GenericFailureLine) \/ Contains(lines, ParseErrorHeaderLine)

\* C20: within one stop sequence History is extended exactly when the
\* response reports success: a response holding the generic failure line
\* or the parse-error line goes with History unchanged by that stop, also
\* when the exception is raised after the parse succeeded.
C20_HistoryAgreesWithResponse ==
    [][\A p \in Procs :
         StopSequenceEnds(p) =>
            (traces' # traces <=> ~ReportsFailure(resp'[p]))]_vars

====
